---- MODULE Spec2Model ----
(***************************************************************************)
(* Model of src/app.py: the tide resolver get_tide_status, the seat        *)
(* classifier judge_seat_detailed, the compass labeler get_wind_label, the *)
(* wind fetch get_wind_data_hourly with its three attempts, and the page   *)
(* script that calls them for the hours 5..13 of the selected date.        *)
(*                                                                         *)
(* Representation.  A datetime is an integer number of minutes since       *)
(* base_time (2024-01-01 00:00, src/app.py:117); every datetime the        *)
(* program builds has minute resolution (strptime "%H:%M", lines 57 and    *)
(* 89, and datetime.combine with a whole hour, line 199).  A wind speed is *)
(* an integer number of tenths of m/s.  Python's None is the integer -1    *)
(* where a direction is expected.  The Japanese strings of the source are  *)
(* written in ASCII:                                                       *)
(*   "turning" = 転流, "west-flow" = 西流, "east-flow" = 東流,             *)
(*   "calm" = 潮止まり, "west-flow(est)" = 西流(予),                       *)
(*   "east-flow(est)" = 東流(予), "undeterminable" = 判断不可,             *)
(*   "bow-starboard" = 右ミヨシ(前), "mid-starboard" = 右舷 胴,            *)
(*   "stern-starboard" = 右トモ(後), "stern-port" = 左トモ(後),            *)
(*   "mid-port" = 左舷 胴, "bow-port" = 左ミヨシ(前),                      *)
(*   "N","NE","E","SE","S","SW","W","NW" = 北 北東 東 南東 南 南西 西 北西 *)
(***************************************************************************)
EXTENDS Integers, Sequences, FiniteSets

VARIABLES
    pc,            \* position of the caller / of the page script
    tide_events,   \* value of tide_events: [is_none, items]
    dt,            \* query datetime (minutes since base_time)
    t,             \* TideStatus returned by get_tide_status
    wind_dir,      \* argument wind_dir / d
    tide_dir,      \* argument tide_dir
    wind_speed,    \* argument wind_speed (tenths of m/s)
    seat,          \* <<seat_name, color_code>> returned by judge_seat_detailed
    seat0,         \* the result for the arguments before a rotation
    wind_label,    \* string returned by get_wind_label
    selected_date, \* selected date (days since base_time)
    attempt,       \* loop variable of "for attempt in range(3)"
    response,      \* what the wind server answers to the current request
    idx,           \* position of the enumerate loop of line 55 (1-based)
    result,        \* local result of get_wind_data_hourly
    last_error,    \* local last_error of get_wind_data_hourly
    ret,           \* value get_wind_data_hourly returned
    wind_data,     \* page variable wind_data: [is_none, map]
    error_msg,     \* page variable error_msg
    h,             \* loop variable of "for h in range(5, 14)"
    count_data,    \* page variable count_data
    requests,      \* history: number of requests.get calls made
    failures,      \* history: number of attempts that raised
    calls          \* history: number of get_tide_status / judge_seat_detailed calls

tideVars == <<tide_events, dt, t>>

seatVars == <<wind_dir, tide_dir, wind_speed, seat, seat0, wind_label>>

fetchVars == <<attempt, response, idx, result, last_error, ret, requests, failures>>

pageVars == <<selected_date, wind_data, error_msg, h, count_data, calls>>

vars == <<pc, tideVars, seatVars, fetchVars, pageVars>>

(***************************************************************************)
(* Values                                                                  *)
(***************************************************************************)
None == -1

NoStatus == [dir |-> None, label |-> "", type |-> ""]

NoSeat == <<"", "">>

Abs(x) == IF x < 0 THEN 0 - x ELSE x

(***************************************************************************)
(* get_real_tide_data: the events it builds (lines 91-94)                  *)
(***************************************************************************)
TideEvent(time, kind) ==
    IF kind = "west" THEN [time |-> time, dir |-> 270, label |-> "west-flow"]
    ELSE IF kind = "east" THEN [time |-> time, dir |-> 90, label |-> "east-flow"]
    ELSE [time |-> time, dir |-> None, label |-> "turning"]

EventList(items) == [is_none |-> FALSE, items |-> items]

NoneEvents == [is_none |-> TRUE, items |-> <<>>]

\* Python truth value of tide_events (line 101): None and [] are false
Truthy(events) == ~events.is_none /\ Len(events.items) > 0

(***************************************************************************)
(* get_tide_status, observed branch (lines 101-114)                        *)
(***************************************************************************)
\* (a - b).total_seconds() for two datetimes in minutes
total_seconds(a, b) == (a - b) * 60

\* the key of min() at line 103
key(q, e) == Abs(total_seconds(q, e.time))

\* Python's min(iterable, key=...): the first element of minimal key
RECURSIVE MinIdx(_, _, _, _)
MinIdx(q, items, i, best) ==
    IF i > Len(items) THEN best
    ELSE MinIdx(q, items, i + 1,
                IF key(q, items[i]) < key(q, items[best]) THEN i ELSE best)

closest(q, items) == items[MinIdx(q, items, 2, 1)]

diff_min(q, items) == Abs(total_seconds(q, closest(q, items).time)) \div 60

SlackMin == 40

is_slack_any(q, items) ==
    \E i \in 1..Len(items) :
        items[i].label = "turning" /\ key(q, items[i]) \div 60 <= SlackMin

is_slack_strict(q, items) ==
    closest(q, items).label = "turning" /\ diff_min(q, items) < SlackMin

\* the test of line 106
is_slack(q, items) ==
    closest(q, items).label = "turning" /\ diff_min(q, items) <= SlackMin

past(q, items) == SelectSeq(items, LAMBDA e : e.time <= q)

future(q, items) == SelectSeq(items, LAMBDA e : e.time > q)

\* lines 109-113
current(q, items) ==
    LET p == past(q, items)
        c == IF Len(p) > 0 THEN p[Len(p)] ELSE items[1]
        f == future(q, items)
    IN IF c.label = "turning" /\ Len(f) > 0 THEN f[1] ELSE c

observed(q, items) ==
    IF is_slack(q, items)
    THEN [dir |-> None, label |-> "calm", type |-> "real"]
    ELSE [dir |-> current(q, items).dir, label |-> current(q, items).label,
          type |-> "real"]

(***************************************************************************)
(* get_tide_status, computed backup (lines 116-122)                        *)
(*                                                                         *)
(* diff_hours * 2 * pi / 12.4 with diff_hours = minutes / 60 is            *)
(* minutes * 2 * pi / 744.  math.sin is evaluated in fixed point: an angle *)
(* or a sine x is the integer x * SinScale.                                *)
(***************************************************************************)
base_time == 0

PeriodMin == 744

SinScale == 25000

TwoPiScaled == 157080

\* sin on [0, pi/2]: x(1 - x2/6 (1 - x2/20 (1 - x2/42 (1 - x2/72))))
SinQuarter(x) ==
    LET x2 == (x * x) \div SinScale
        t4 == SinScale - x2 \div 72
        t3 == SinScale - ((x2 * t4) \div SinScale) \div 42
        t2 == SinScale - ((x2 * t3) \div SinScale) \div 20
        t1 == SinScale - ((x2 * t2) \div SinScale) \div 6
    IN (x * t1) \div SinScale

\* sin of an angle in [0, 2 pi)
Sin(a) ==
    LET half == TwoPiScaled \div 2
        b == IF a >= half THEN a - half ELSE a
        c == IF 2 * b > half THEN half - b ELSE b
    IN IF a >= half THEN 0 - SinQuarter(c) ELSE SinQuarter(c)

\* line 118-119
cycle(q) ==
    LET diff_minutes == total_seconds(q, base_time) \div 60
    IN Sin(((diff_minutes % PeriodMin) * TwoPiScaled) \div PeriodMin)

\* the thresholds 0.3 and -0.3 of lines 120-121
Threshold == (3 * SinScale) \div 10

calc(q) ==
    IF cycle(q) > Threshold
    THEN [dir |-> 270, label |-> "west-flow(est)", type |-> "calc"]
    ELSE IF cycle(q) < 0 - Threshold
    THEN [dir |-> 90, label |-> "east-flow(est)", type |-> "calc"]
    ELSE [dir |-> None, label |-> "calm", type |-> "calc"]

get_tide_status(q, events) ==
    IF Truthy(events) THEN observed(q, events.items) ELSE calc(q)

(***************************************************************************)
(* judge_seat_detailed (lines 124-145)                                     *)
(***************************************************************************)
SpeedMin == 10

undeterminable_and(td, ws) == td = None /\ ws < SpeedMin

\* the test of line 126: tide_dir is None or wind_speed < 1.0
undeterminable(td, ws) == td = None \/ ws < SpeedMin

rel_no_mod(wd, td) == td - wd

\* lines 129-130: boat_heading = wind_dir; rel = (tide_dir - boat_heading) % 360
rel(wd, td) == (td - wd) % 360

sector_closed(r) ==
    IF 0 <= r /\ r <= 45 THEN <<"bow-starboard", "#00b894">>
    ELSE IF 45 < r /\ r < 135 THEN <<"mid-starboard", "#55efc4">>
    ELSE IF 135 <= r /\ r < 180 THEN <<"stern-starboard", "#00cec9">>
    ELSE IF 180 <= r /\ r < 225 THEN <<"stern-port", "#6c5ce7">>
    ELSE IF 225 <= r /\ r < 315 THEN <<"mid-port", "#fab1a0">>
    ELSE IF 315 <= r /\ r < 360 THEN <<"bow-port", "#e17055">>
    ELSE <<"-", "#b2bec3">>

\* the if/elif chain of lines 132-145
sector(r) ==
    IF 0 <= r /\ r < 45 THEN <<"bow-starboard", "#00b894">>
    ELSE IF 45 <= r /\ r < 135 THEN <<"mid-starboard", "#55efc4">>
    ELSE IF 135 <= r /\ r < 180 THEN <<"stern-starboard", "#00cec9">>
    ELSE IF 180 <= r /\ r < 225 THEN <<"stern-port", "#6c5ce7">>
    ELSE IF 225 <= r /\ r < 315 THEN <<"mid-port", "#fab1a0">>
    ELSE IF 315 <= r /\ r < 360 THEN <<"bow-port", "#e17055">>
    ELSE <<"-", "#b2bec3">>

judge_seat_detailed(wd, td, ws) ==
    IF undeterminable(td, ws) THEN <<"undeterminable", "#b2bec3">>
    ELSE sector(rel(wd, td))

(***************************************************************************)
(* get_wind_label (lines 147-149)                                          *)
(***************************************************************************)
dirs == <<"N", "NE", "E", "SE", "S", "SW", "W", "NW">>

get_wind_label_no_offset(d) == dirs[((2 * d) % 720) \div 90 + 1]

\* dirs[int((d + 22.5) % 360 / 45)], with numerator and denominator doubled
get_wind_label(d) == dirs[((2 * d + 45) % 720) \div 90 + 1]

(***************************************************************************)
(* get_wind_data_hourly (lines 43-70): helpers                             *)
(***************************************************************************)
MaxAttempts == 3

more_attempts_extra(a) == a <= MaxAttempts

\* for attempt in range(3)
more_attempts(a) == a < MaxAttempts

EmptyMap == [x \in {} |-> 0]

NoError == [attempt |-> None, kind |-> ""]

NoResponse == [status_ok |-> FALSE, body |-> "", entries |-> <<>>]

NoRet == [kind |-> "", map |-> EmptyMap, err |-> NoError]

\* lines 58-61: result[dt] = {"wind_speed": ..., "wind_dir": ...}
store(res, e) ==
    [x \in (DOMAIN res) \cup {e.time} |->
        IF x = e.time THEN [wind_speed |-> e.wind_speed, wind_dir |-> e.wind_dir]
        ELSE res[x]]

(***************************************************************************)
(* The page script (lines 159-247): helpers                                *)
(***************************************************************************)
\* datetime.datetime.combine(selected_date, datetime.time(hour=h)), line 199
combine(date, hour) == date * 1440 + hour * 60

\* lines 179-182
unpack(r) ==
    IF r.kind = "tuple"
    THEN [wind_data |-> [is_none |-> TRUE, map |-> EmptyMap], error_msg |-> r.err]
    ELSE [wind_data |-> [is_none |-> FALSE, map |-> r.map], error_msg |-> NoError]

\* line 185: wind_data is None or len(wind_data) == 0
page_stops(wd) == wd.is_none \/ Cardinality(DOMAIN wd.map) = 0

FirstHour == 5

LastHour == 13

(***************************************************************************)
(* Inputs                                                                  *)
(***************************************************************************)
MaxEvents == 3

EventTimes == {0, 40, 120, 240}

EventKinds == {"west", "east", "turning"}

Events == {TideEvent(tm, k) : tm \in EventTimes, k \in EventKinds}

RECURSIVE SeqsUpTo(_, _)
SeqsUpTo(S, n) ==
    IF n = 0 THEN {<<>>}
    ELSE LET shorter == SeqsUpTo(S, n - 1)
         IN shorter \cup {Append(s, e) : s \in {x \in shorter : Len(x) = n - 1}, e \in S}

EventLists == {EventList(s) : s \in SeqsUpTo(Events, MaxEvents) \ {<<>>}}

QueryTimes == {-41, -40, 0, 20, 39, 40, 41, 80, 81, 120, 160, 161, 180, 210, 240, 280, 281}

MaxMinute == 800

CalcTimes == (0 - MaxMinute)..MaxMinute

Directions == 0..359

TideDirs == {None, 0, 45, 90, 270, 359}

Speeds == {0, 9, 10, 50}

MaxRowEvents == 2

RowEventLists ==
    {NoneEvents} \cup {EventList(s) : s \in SeqsUpTo(Events, MaxRowEvents)}

RowTimes == {-41, 0, 40, 80, 240, 300, 360, 420}

RowWindDirs == {0, 100}

RotTideDirs == {90, 270}

RotSpeeds == {9, 10}

SelDates == {0, 1}

MaxEntries == 2

PayloadTimes(date) == {combine(date, 5), combine(date, 6), combine(date + 1, 5)}

\* an element of the arrays of the "hourly" object: a time string that strptime
\* parses (time_ok) or not, with or without its wind_speed_10m and
\* wind_direction_10m elements (has_wind)
Entries(date) ==
    {[time_ok |-> TRUE, time |-> tm, has_wind |-> TRUE, wind_speed |-> ws, wind_dir |-> 100] :
        tm \in PayloadTimes(date), ws \in {5, 30}}
    \cup {[time_ok |-> FALSE, time |-> 0, has_wind |-> TRUE, wind_speed |-> 30, wind_dir |-> 100],
          [time_ok |-> TRUE, time |-> combine(date, 5), has_wind |-> FALSE,
           wind_speed |-> 0, wind_dir |-> 0]}

Responses(date) ==
    {[status_ok |-> FALSE, body |-> "payload", entries |-> <<>>],
     [status_ok |-> TRUE, body |-> "bad_json", entries |-> <<>>],
     [status_ok |-> TRUE, body |-> "no_hourly", entries |-> <<>>]}
    \cup {[status_ok |-> TRUE, body |-> "payload", entries |-> es] :
            es \in SeqsUpTo(Entries(date), MaxEntries)}

MaxPageEvents == 1

PageEvents(date) ==
    {TideEvent(combine(date, 5) + off, k) : off \in {0, 45}, k \in EventKinds}

\* what get_real_tide_data returns: None (line 97) or the list of events (line 95)
PageTideLists(date) ==
    {NoneEvents} \cup {EventList(s) : s \in SeqsUpTo(PageEvents(date), MaxPageEvents)}

(***************************************************************************)
(* Initial values of the parts a specification does not use                *)
(***************************************************************************)
TideIdle == tide_events = NoneEvents /\ dt = 0 /\ t = NoStatus

SeatIdle ==
    /\ wind_dir = 0 /\ tide_dir = None /\ wind_speed = 0
    /\ seat = NoSeat /\ seat0 = NoSeat /\ wind_label = ""

FetchIdle ==
    /\ attempt = 0 /\ response = NoResponse /\ idx = 0 /\ result = EmptyMap
    /\ last_error = NoError /\ ret = NoRet /\ requests = 0 /\ failures = 0

PageIdle ==
    /\ selected_date = 0
    /\ wind_data = [is_none |-> TRUE, map |-> EmptyMap]
    /\ error_msg = NoError /\ h = 0 /\ count_data = 0 /\ calls = 0

(***************************************************************************)
(* SpecTide: get_tide_status called on drawn arguments                     *)
(***************************************************************************)
InitTide ==
    /\ pc = "tide"
    /\ \/ tide_events \in EventLists /\ dt \in QueryTimes
       \/ tide_events \in {NoneEvents, EventList(<<>>)} /\ dt \in CalcTimes
    /\ t = NoStatus
    /\ SeatIdle /\ FetchIdle /\ PageIdle

CallTide ==
    /\ pc = "tide"
    /\ t' = get_tide_status(dt, tide_events)
    /\ pc' = "tide_done"
    /\ UNCHANGED <<tide_events, dt, seatVars, fetchVars, pageVars>>

NextTide == CallTide

SpecTide == InitTide /\ [][NextTide]_vars

(***************************************************************************)
(* SpecTideTable: get_tide_status called on the lists a tide table gives:  *)
(* one row per time, rows in ascending order of time, a turning row never  *)
(* directly followed by another turning row                                *)
(***************************************************************************)
TableLists ==
    {l \in EventLists :
        \A i \in 1..(Len(l.items) - 1) :
            /\ l.items[i].time < l.items[i + 1].time
            /\ ~(l.items[i].label = "turning" /\ l.items[i + 1].label = "turning")}

InitTideTable ==
    /\ pc = "tide"
    /\ tide_events \in TableLists /\ dt \in QueryTimes
    /\ t = NoStatus
    /\ SeatIdle /\ FetchIdle /\ PageIdle

SpecTideTable == InitTideTable /\ [][NextTide]_vars

(***************************************************************************)
(* SpecSeat: judge_seat_detailed called on drawn arguments, and on the     *)
(* result of get_tide_status as the hourly loop does (lines 208-210)       *)
(***************************************************************************)
InitSeat ==
    /\ \/ /\ pc = "judge"
          /\ wind_dir \in Directions /\ tide_dir \in TideDirs /\ wind_speed \in Speeds
          /\ TideIdle
       \/ /\ pc = "row"
          /\ wind_dir \in RowWindDirs /\ tide_dir = None /\ wind_speed \in Speeds
          /\ tide_events \in RowEventLists /\ dt \in RowTimes /\ t = NoStatus
    /\ seat = NoSeat /\ seat0 = NoSeat /\ wind_label = ""
    /\ FetchIdle /\ PageIdle

CallJudge ==
    /\ pc = "judge"
    /\ seat' = judge_seat_detailed(wind_dir, tide_dir, wind_speed)
    /\ seat0' = seat'
    /\ pc' = "judged"
    /\ UNCHANGED <<wind_dir, tide_dir, wind_speed, wind_label, tideVars, fetchVars, pageVars>>

CallRow ==
    /\ pc = "row"
    /\ t' = get_tide_status(dt, tide_events)
    /\ tide_dir' = t'.dir
    /\ seat' = judge_seat_detailed(wind_dir, t'.dir, wind_speed)
    /\ wind_label' = get_wind_label(wind_dir)
    /\ pc' = "row_done"
    /\ UNCHANGED <<wind_dir, wind_speed, seat0, tide_events, dt, fetchVars, pageVars>>

NextSeat == CallJudge \/ CallRow

SpecSeat == InitSeat /\ [][NextSeat]_vars

(***************************************************************************)
(* SpecRotate: judge_seat_detailed called, then called again with both     *)
(* directions rotated by the same angle                                   *)
(***************************************************************************)
InitRotate ==
    /\ pc = "judge"
    /\ wind_dir \in Directions /\ tide_dir \in RotTideDirs /\ wind_speed \in RotSpeeds
    /\ seat = NoSeat /\ seat0 = NoSeat /\ wind_label = ""
    /\ TideIdle /\ FetchIdle /\ PageIdle

Rotate(k) ==
    /\ pc = "judged"
    /\ wind_dir' = (wind_dir + k) % 360
    /\ tide_dir' = (tide_dir + k) % 360
    /\ seat' = judge_seat_detailed(wind_dir', tide_dir', wind_speed)
    /\ pc' = "rotated"
    /\ UNCHANGED <<wind_speed, seat0, wind_label, tideVars, fetchVars, pageVars>>

NextRotate == CallJudge \/ \E k \in Directions : Rotate(k)

SpecRotate == InitRotate /\ [][NextRotate]_vars

(***************************************************************************)
(* SpecLabel: get_wind_label called on a drawn direction                   *)
(***************************************************************************)
InitLabel ==
    /\ pc = "label"
    /\ wind_dir \in Directions
    /\ tide_dir = None /\ wind_speed = 0
    /\ seat = NoSeat /\ seat0 = NoSeat /\ wind_label = ""
    /\ TideIdle /\ FetchIdle /\ PageIdle

CallLabel ==
    /\ pc = "label"
    /\ wind_label' = get_wind_label(wind_dir)
    /\ pc' = "labelled"
    /\ UNCHANGED <<wind_dir, tide_dir, wind_speed, seat, seat0, tideVars, fetchVars, pageVars>>

NextLabel == CallLabel

SpecLabel == InitLabel /\ [][NextLabel]_vars

(***************************************************************************)
(* SpecPage: one run of the page script: the wind fetch with its attempts  *)
(* (lines 43-70, called at line 176), the handling of its result (lines    *)
(* 179-190), the tide fetch (line 192), the hourly loop (lines 198-224)    *)
(* and the table (lines 226-247)                                           *)
(***************************************************************************)
InitPage ==
    /\ pc = "fetch_request"
    /\ selected_date \in SelDates
    /\ wind_data = [is_none |-> TRUE, map |-> EmptyMap]
    /\ error_msg = NoError /\ h = 0 /\ count_data = 0 /\ calls = 0
    /\ TideIdle /\ SeatIdle /\ FetchIdle

\* an exception inside the try block: the handler of lines 64-67
Raise(kind) ==
    /\ last_error' = [attempt |-> attempt, kind |-> kind]
    /\ failures' = failures + 1
    /\ attempt' = attempt + 1
    /\ pc' = "fetch_request"

\* line 47: requests.get raises, or returns the server's answer
FetchRequest ==
    /\ pc = "fetch_request"
    /\ more_attempts(attempt)
    /\ requests' = requests + 1
    /\ \/ /\ Raise("request")
          /\ UNCHANGED <<response, idx, result>>
       \/ /\ response' \in Responses(selected_date)
          /\ pc' = "fetch_status"
          /\ UNCHANGED <<attempt, idx, result, last_error, failures>>
    /\ UNCHANGED <<ret, tideVars, seatVars, pageVars>>

\* line 48: r.raise_for_status()
FetchStatus ==
    /\ pc = "fetch_status"
    /\ IF response.status_ok
       THEN pc' = "fetch_json" /\ UNCHANGED <<attempt, last_error, failures>>
       ELSE Raise("status")
    /\ UNCHANGED <<response, idx, result, ret, requests, tideVars, seatVars, pageVars>>

\* lines 50-52: data = r.json(); hourly = data["hourly"]; result = {}
FetchJson ==
    /\ pc = "fetch_json"
    /\ IF response.body = "bad_json" THEN
           Raise("json") /\ UNCHANGED <<idx, result>>
       ELSE IF response.body = "no_hourly" THEN
           Raise("key") /\ UNCHANGED <<idx, result>>
       ELSE
           /\ result' = EmptyMap
           /\ idx' = 1
           /\ pc' = "fetch_loop"
           /\ UNCHANGED <<attempt, last_error, failures>>
    /\ UNCHANGED <<response, ret, requests, tideVars, seatVars, pageVars>>

\* lines 55-61: one iteration of the enumerate loop
FetchParse ==
    /\ pc = "fetch_loop"
    /\ idx <= Len(response.entries)
    /\ LET e == response.entries[idx]
       IN IF ~e.time_ok THEN
              Raise("strptime") /\ UNCHANGED <<idx, result>>
          ELSE IF ~e.has_wind THEN
              Raise("index") /\ UNCHANGED <<idx, result>>
          ELSE
              /\ result' = store(result, e)
              /\ idx' = idx + 1
              /\ UNCHANGED <<pc, attempt, last_error, failures>>
    /\ UNCHANGED <<response, ret, requests, tideVars, seatVars, pageVars>>

\* line 62: return result
FetchReturn ==
    /\ pc = "fetch_loop"
    /\ idx > Len(response.entries)
    /\ ret' = [kind |-> "dict", map |-> result, err |-> NoError]
    /\ pc' = "page_unpack"
    /\ UNCHANGED <<attempt, response, idx, result, last_error, requests, failures>>
    /\ UNCHANGED <<tideVars, seatVars, pageVars>>

\* line 70: return None, last_error
FetchGiveUp ==
    /\ pc = "fetch_request"
    /\ ~more_attempts(attempt)
    /\ ret' = [kind |-> "tuple", map |-> EmptyMap, err |-> last_error]
    /\ pc' = "page_unpack"
    /\ UNCHANGED <<attempt, response, idx, result, last_error, requests, failures>>
    /\ UNCHANGED <<tideVars, seatVars, pageVars>>

\* lines 179-190; the locals of get_wind_data_hourly are gone
PageUnpack ==
    /\ pc = "page_unpack"
    /\ wind_data' = unpack(ret).wind_data
    /\ error_msg' = unpack(ret).error_msg
    /\ pc' = IF page_stops(wind_data') THEN "stopped" ELSE "tide_fetch"
    /\ attempt' = 0 /\ response' = NoResponse /\ idx' = 0
    /\ result' = EmptyMap /\ last_error' = NoError
    /\ UNCHANGED <<ret, requests, failures, selected_date, h, count_data, calls>>
    /\ UNCHANGED <<tideVars, seatVars>>

\* line 192, and the loop set up by lines 195-198
PageTide ==
    /\ pc = "tide_fetch"
    /\ tide_events' \in PageTideLists(selected_date)
    /\ count_data' = 0
    /\ h' = FirstHour
    /\ pc' = "loop"
    /\ UNCHANGED <<dt, t, seatVars, fetchVars, selected_date, wind_data, error_msg, calls>>

\* lines 199-205: no wind sample for the hour
HourSkip ==
    /\ pc = "loop"
    /\ h <= LastHour
    /\ combine(selected_date, h) \notin DOMAIN wind_data.map
    /\ h' = h + 1
    /\ UNCHANGED <<pc, tideVars, seatVars, fetchVars>>
    /\ UNCHANGED <<selected_date, wind_data, error_msg, count_data, calls>>

\* lines 199-224: one row of the table
HourRow ==
    /\ pc = "loop"
    /\ h <= LastHour
    /\ combine(selected_date, h) \in DOMAIN wind_data.map
    /\ LET q == combine(selected_date, h)
           w == wind_data.map[q]
       IN /\ dt' = q
          /\ count_data' = count_data + 1
          /\ t' = get_tide_status(q, tide_events)
          /\ wind_dir' = w.wind_dir
          /\ wind_speed' = w.wind_speed
          /\ tide_dir' = t'.dir
          /\ seat' = judge_seat_detailed(w.wind_dir, t'.dir, w.wind_speed)
          /\ wind_label' = get_wind_label(w.wind_dir)
    /\ calls' = calls + 1
    /\ h' = h + 1
    /\ UNCHANGED <<pc, tide_events, seat0, fetchVars, selected_date, wind_data, error_msg>>

\* lines 226-247
PageRender ==
    /\ pc = "loop"
    /\ h > LastHour
    /\ pc' = IF count_data > 0 THEN "table" ELSE "warning"
    /\ UNCHANGED <<tideVars, seatVars, fetchVars, pageVars>>

NextPage ==
    \/ FetchRequest \/ FetchStatus \/ FetchJson \/ FetchParse
    \/ FetchReturn \/ FetchGiveUp
    \/ PageUnpack \/ PageTide \/ HourSkip \/ HourRow \/ PageRender

SpecPage == InitPage /\ [][NextPage]_vars

(***************************************************************************)
(* Properties of get_tide_status                                           *)
(***************************************************************************)
Items == tide_events.items

Dist(i) == Abs(dt - Items[i].time)

Turning(i) == Items[i].label = "turning"

SlackResult == [dir |-> None, label |-> "calm", type |-> "real"]

ObservedDone == pc = "tide_done" /\ Truthy(tide_events)

\* the event of minimum absolute time difference, the first one in list order
\* among equally close events
IsFirstClosest(i) ==
    /\ \A j \in 1..Len(Items) : Dist(i) <= Dist(j)
    /\ \A j \in 1..(i - 1) : Dist(j) > Dist(i)

\* C1: on a non-empty event list the result is the observed slack result exactly
\* when the first closest event is a turning event at most 40 minutes (inclusive)
\* from the query; a single turning event queried at its own time gives slack.
C1_SlackIffClosestTurning ==
    ObservedDone =>
        /\ (t = SlackResult) <=>
               (\E i \in 1..Len(Items) :
                    IsFirstClosest(i) /\ Turning(i) /\ Dist(i) <= 40)
        /\ (Len(Items) = 1 /\ Turning(1) /\ Items[1].time = dt) => t = SlackResult

\* C1 witness: a turning event exactly 40 minutes away comes first in the list,
\* a flow event is equally close, and the result is slack
C1_Witness ==
    /\ ObservedDone
    /\ t = SlackResult
    /\ \E i, j \in 1..Len(Items) :
           /\ i < j /\ Turning(i) /\ ~Turning(j)
           /\ Dist(i) = 40 /\ Dist(j) = 40

SlackApplies ==
    \E i \in 1..Len(Items) : IsFirstClosest(i) /\ Turning(i) /\ Dist(i) <= 40

\* the events the claim C2 allows as "current" before the turning override
LatestPastOrEarliest(i) ==
    IF \E j \in 1..Len(Items) : Items[j].time <= dt
    THEN /\ Items[i].time <= dt
         /\ \A j \in 1..Len(Items) : Items[j].time <= dt => Items[j].time <= Items[i].time
    ELSE \A j \in 1..Len(Items) : Items[i].time <= Items[j].time

IsFirstFuture(i) ==
    /\ Items[i].time > dt
    /\ \A j \in 1..(i - 1) : Items[j].time <= dt

ChosenByClaim(i) ==
    \/ /\ LatestPastOrEarliest(i)
       /\ ~(Turning(i) /\ \E j \in 1..Len(Items) : Items[j].time > dt)
    \/ /\ IsFirstFuture(i)
       /\ \E c \in 1..Len(Items) : LatestPastOrEarliest(c) /\ Turning(c)

\* C2: on every non-empty event sequence, sorted or not, when the slack rule does
\* not apply the result carries the direction and label of the event with the
\* latest timestamp <= the query (the earliest event overall when there is none),
\* replaced by the first future event when it is a turning event and a future
\* event exists; origin observed.
C2_CurrentIsLatestPast ==
    (ObservedDone /\ ~SlackApplies) =>
        \E i \in 1..Len(Items) :
            /\ ChosenByClaim(i)
            /\ t = [dir |-> Items[i].dir, label |-> Items[i].label, type |-> "real"]

Sorted == \A i, j \in 1..Len(Items) : i < j => Items[i].time <= Items[j].time

Flowing ==
    \/ t = [dir |-> 90, label |-> "east-flow", type |-> "real"]
    \/ t = [dir |-> 270, label |-> "west-flow", type |-> "real"]

RawTurning == t = [dir |-> None, label |-> "turning", type |-> "real"]

\* C3: on a non-empty event list sorted ascending by timestamp the raw label
\* turning is returned only for a list of one turning event queried more than 40
\* minutes from it; a list of two or more events gives slack or a flowing current.
C3_RawTurningOnlyDegenerate ==
    (ObservedDone /\ Sorted) =>
        /\ RawTurning => (Len(Items) = 1 /\ Turning(1) /\ Dist(1) > 40)
        /\ Len(Items) >= 2 => (t = SlackResult \/ Flowing)

\* C4 as stated: a turning event within 40 minutes (inclusive) of the query gives
\* the slack result, also when a non-turning event is nearer to the query.
C4_AnyTurningWithinWindow ==
    (ObservedDone /\ \E i \in 1..Len(Items) : Turning(i) /\ Dist(i) <= 40) =>
        t = SlackResult

\* C4 amended: a turning event within 40 minutes (inclusive) gives the slack result
\* when every non-turning event is strictly farther from the query than it; when a
\* non-turning event is strictly nearer than every turning event the result is not
\* the slack result, whether or not a turning event lies within 40 minutes.
C4_SlackUnlessNearerFlow ==
    ObservedDone =>
        /\ (\E i \in 1..Len(Items) :
                /\ Turning(i) /\ Dist(i) <= 40
                /\ \A j \in 1..Len(Items) : ~Turning(j) => Dist(j) > Dist(i))
           => t = SlackResult
        /\ (\E j \in 1..Len(Items) :
                /\ ~Turning(j)
                /\ \A i \in 1..Len(Items) : Turning(i) => Dist(j) < Dist(i))
           => t # SlackResult

\* C4 witness: a turning event lies within 40 minutes, a flow event is strictly
\* nearer, and the result is that flow event's current, not slack
C4_Witness ==
    /\ ObservedDone
    /\ \E i, j \in 1..Len(Items) :
           /\ Turning(i) /\ Dist(i) <= 40
           /\ ~Turning(j) /\ Dist(j) < Dist(i)
    /\ Flowing

\* C8: without events (None or empty) the result has origin calc and, by the sign
\* of cycle against the thresholds 0.3 and -0.3, is west 270 "west-flow
\* (estimated)", east 90 "east-flow (estimated)" or direction null with label
\* "calm (estimated)"; at the anchor instant it is the latter.
C8_FallbackLabels ==
    (pc = "tide_done" /\ ~Truthy(tide_events)) =>
        /\ t.type = "calc"
        /\ cycle(dt) > Threshold => (t.dir = 270 /\ t.label = "west-flow(est)")
        /\ cycle(dt) < 0 - Threshold => (t.dir = 90 /\ t.label = "east-flow(est)")
        /\ (cycle(dt) <= Threshold /\ cycle(dt) >= 0 - Threshold) =>
               (t.dir = None /\ t.label = "calm(est)")
        /\ dt = base_time => (cycle(dt) = 0 /\ t.dir = None /\ t.label = "calm(est)")

(***************************************************************************)
(* Properties of judge_seat_detailed                                       *)
(***************************************************************************)
Undeterminable == <<"undeterminable", "#b2bec3">>

\* C5: judge_seat_detailed returns the undeterminable result for every wind_dir
\* whenever tide_dir is null or wind_speed < 1.0, and so does the hourly row for
\* every TideStatus of direction null that get_tide_status returns (observed
\* slack, estimated calm, raw turning), whatever the wind sample.
C5_UndeterminableWithoutHeading ==
    /\ (pc = "judged" /\ (tide_dir = None \/ wind_speed < 10)) => seat = Undeterminable
    /\ (pc = "row_done" /\ t.dir = None) => seat = Undeterminable
    /\ (pc = "row_done" /\ wind_speed < 10) => seat = Undeterminable

\* C5 witness: the hourly row got an observed slack from get_tide_status with a
\* wind of at least 1.0 m/s and classified it undeterminable
C5_Witness ==
    /\ pc = "row_done"
    /\ t = SlackResult
    /\ wind_speed >= 10
    /\ seat = Undeterminable

\* the seat name the sector table gives for a relative bearing
SectorName(r) ==
    IF r \in 0..44 THEN "bow-starboard"
    ELSE IF r \in 45..134 THEN "mid-starboard"
    ELSE IF r \in 135..179 THEN "stern-starboard"
    ELSE IF r \in 180..224 THEN "stern-port"
    ELSE IF r \in 225..314 THEN "mid-port"
    ELSE IF r \in 315..359 THEN "bow-port"
    ELSE "none"

\* C6: for wind_dir in 0..359, non-null tide_dir and wind_speed >= 1.0 the seat
\* is that of the half-open sector containing (tide_dir - wind_dir) mod 360, each
\* boundary 45, 135, 180, 225, 315 belonging to the sector that starts there
\* (wind_dir 0, tide_dir 45 gives mid-starboard); "-" is never returned.
C6_SectorTable ==
    (pc = "judged" /\ tide_dir # None /\ wind_speed >= 10) =>
        /\ seat[1] = SectorName((tide_dir - wind_dir + 360) % 360)
        /\ seat[1] # "-"
        /\ (wind_dir = 0 /\ tide_dir = 45) => seat[1] = "mid-starboard"
        /\ \A b \in {45, 135, 180, 225, 315} :
               (tide_dir - wind_dir + 360) % 360 = b => seat[1] = SectorName(b + 1)

\* C6 witness: wind_dir 0, tide_dir 45 at 5.0 m/s classified mid-starboard
C6_Witness ==
    /\ pc = "judged"
    /\ wind_dir = 0 /\ tide_dir = 45 /\ wind_speed = 50
    /\ seat[1] = "mid-starboard"

\* C7: the relative bearing lies in [0, 360), and rotating wind_dir and tide_dir
\* by the same angle (mod 360) leaves the result of judge_seat_detailed unchanged.
C7_RotationInvariant ==
    /\ (pc \in {"judged", "rotated"}) => rel(wind_dir, tide_dir) \in 0..359
    /\ pc = "rotated" => seat = seat0

\* C7 witness: after a rotation the wind direction exceeds the tide direction by
\* more than 180 degrees (the subtraction is negative) and the seat is still the
\* one found before the rotation
C7_Witness ==
    /\ pc = "rotated"
    /\ wind_dir - tide_dir > 180
    /\ wind_speed >= 10
    /\ seat = seat0 /\ seat[1] = "mid-starboard"

(***************************************************************************)
(* Properties of get_wind_label                                            *)
(***************************************************************************)
\* C9 as stated: N for the directions 0, 44 and 359 and NE for 45.
C9_LabelsAsStated ==
    pc = "labelled" =>
        /\ wind_dir \in {0, 44, 359} => wind_label = "N"
        /\ wind_dir = 45 => wind_label = "NE"

\* C9 amended: N for the directions 0 and 359 and NE for 44 and 45; every
\* direction d in 0..359 gets the entry floor(((d + 22.5) mod 360) / 45) of
\* N, NE, E, SE, S, SW, W, NW, so that N covers 338..359 and 0..22 and NE 23..67.
C9_Labels ==
    pc = "labelled" =>
        /\ wind_dir \in {0, 359} => wind_label = "N"
        /\ wind_dir \in {44, 45} => wind_label = "NE"
        /\ wind_label = "N" <=> (wind_dir >= 338 \/ wind_dir <= 22)
        /\ wind_label = "NE" <=> wind_dir \in 23..67
        /\ \E n \in 0..7 :
               /\ wind_label = dirs[n + 1]
               /\ 90 * n <= (2 * wind_dir + 45) % 720
               /\ (2 * wind_dir + 45) % 720 < 90 * (n + 1)

\* C9 witness: direction 44 was labelled NE
C9_Witness == pc = "labelled" /\ wind_dir = 44 /\ wind_label = "NE"

(***************************************************************************)
(* Properties of get_wind_data_hourly and of the page                      *)
(***************************************************************************)
AfterFetch == pc \in {"page_unpack", "stopped", "tide_fetch", "loop", "table", "warning"}

AfterUnpack == pc \in {"stopped", "tide_fetch", "loop", "table", "warning"}

\* the sample the mapping must hold for a time: that of the last entry with it
LastSample(entries, tm) ==
    LET n == CHOOSE i \in 1..Len(entries) :
                 /\ entries[i].time = tm
                 /\ \A j \in (i + 1)..Len(entries) : entries[j].time # tm
    IN [wind_speed |-> entries[n].wind_speed, wind_dir |-> entries[n].wind_dir]

\* C10: at most three requests are made; a returned mapping is the complete
\* mapping of the answer of the first attempt that succeeded, with no request
\* after it; the failure value is returned only after three failed attempts, with
\* the error of the third; an attempt that raised returns nothing of its
\* partially built mapping; a failure or an empty mapping stops the page before
\* get_tide_status or judge_seat_detailed is called.
C10_FetchAttempts ==
    /\ requests <= 3
    /\ ~AfterFetch => ret = NoRet
    /\ (AfterFetch /\ ret.kind = "dict") => (requests = failures + 1)
    /\ (pc = "page_unpack" /\ ret.kind = "dict") =>
           /\ \A i \in 1..Len(response.entries) :
                  response.entries[i].time_ok /\ response.entries[i].has_wind
           /\ DOMAIN ret.map = {response.entries[i].time : i \in 1..Len(response.entries)}
           /\ \A tm \in DOMAIN ret.map : ret.map[tm] = LastSample(response.entries, tm)
    /\ (AfterFetch /\ ret.kind = "tuple") =>
           /\ requests = 3 /\ failures = 3
           /\ ret.map = EmptyMap
           /\ ret.err.attempt = 2
    /\ (pc = "page_unpack" /\ ret.kind = "tuple") => ret.err = last_error
    /\ (AfterUnpack /\ (ret.kind = "tuple" \/ ret.map = EmptyMap)) =>
           (pc = "stopped" /\ calls = 0)
    /\ calls > 0 => (ret.kind = "dict" /\ ret.map # EmptyMap)

\* C10 witness: the third attempt raised after it had stored a sample, and the
\* failure value, not that partial mapping, was returned
C10_Witness ==
    /\ pc = "page_unpack"
    /\ ret.kind = "tuple"
    /\ result # EmptyMap
    /\ last_error = [attempt |-> 2, kind |-> "strptime"]

====
